---- MODULE Spec2Model ----
(***************************************************************************)
(* A model of the layered key-value map (src/helpers/map.ts), of the       *)
(* schema predicates and of the store (src/ast/schemaPredicates.ts) of the *)
(* graph cache.                                                            *)
(***************************************************************************)
EXTENDS Integers, Sequences, FiniteSets, TLC

VARIABLES map, opened, schemaIn, sp, out, store, linkHist,
          typeFragments, activeOperations, stream, forwarded

vars == <<map, opened, schemaIn, sp, out, store, linkHist,
          typeFragments, activeOperations, stream, forwarded>>

mapVars == <<map, opened>>

schemaVars == <<schemaIn, sp, out>>

storeVars == <<store, linkHist>>

populateVars == <<typeFragments, activeOperations, stream, forwarded>>

(***************************************************************************)
(* Bounds of the model.                                                    *)
(***************************************************************************)
\* Layer ids are the numbers 0..MaxLayer.
MaxLayer == 2

\* The keys and the defined values that the operations are called with.
Keys == {"k1", "k2"}

Vals == {"v1", "v2"}

\* The JavaScript value undefined: a tombstone when stored in an overlay, and
\* what Map.get answers for a key that is not present.
Undefined == "undefined"

MaybeVals == Vals \cup {Undefined}

LayerIds == 0..MaxLayer

\* The argument optimisticKey: null | number.  null is <<>>, the number n is <<n>>.
Null == <<>>

Num(n) == <<n>>

OptKeys == {Null} \cup {Num(n) : n \in LayerIds}

(***************************************************************************)
(* JavaScript helpers used by map.ts.                                      *)
(***************************************************************************)
\* if (optimisticKey): null and the number 0 are falsy, any other number is truthy.
Truthy(ok) == ok # Null /\ ok[1] # 0

\* Map.prototype.has
MapHas(m, k) == k \in DOMAIN m

\* Map.prototype.get: undefined when the key is not present.
MapGet(m, k) == IF k \in DOMAIN m THEN m[k] ELSE Undefined

\* Map.prototype.set
MapSet(m, k, v) == [x \in DOMAIN m \cup {k} |-> IF x = k THEN v ELSE m[x]]

\* Map.prototype.delete
MapDelete(m, k) == [x \in DOMAIN m \ {k} |-> m[x]]

\* new Map()
EmptyMap == [x \in {} |-> Undefined]

\* delete dict[n]
DictDelete(d, n) == [x \in DOMAIN d \ {n} |-> d[x]]

\* dict[n] = m
DictSet(d, n, m) == [x \in DOMAIN d \cup {n} |-> IF x = n THEN m ELSE d[x]]

\* Array.prototype.unshift: the new element goes to the front.
UnshiftAtEnd(s, x) == Append(s, x)

Unshift(s, x) == <<x>> \o s

\* Array.prototype.indexOf, 0-based, -1 when x is not an element.
IndexOf(s, x) ==
  IF \E i \in 1..Len(s) : s[i] = x
  THEN (CHOOSE i \in 1..Len(s) : s[i] = x /\ \A j \in 1..(i - 1) : s[j] # x) - 1
  ELSE -1

\* Array.prototype.splice(index, 1) with a 0-based index; a negative index
\* counts from the end of the array, as in JavaScript.
SpliceToEnd(s, index) ==
  LET start == IF index < 0 THEN (IF Len(s) + index < 0 THEN 0 ELSE Len(s) + index)
               ELSE (IF index > Len(s) THEN Len(s) ELSE index)
  IN  SubSeq(s, 1, start)

SpliceOne(s, index) ==
  LET start == IF index < 0 THEN (IF Len(s) + index < 0 THEN 0 ELSE Len(s) + index)
               ELSE (IF index > Len(s) THEN Len(s) ELSE index)
  IN  SubSeq(s, 1, start) \o SubSeq(s, start + 2, Len(s))

(***************************************************************************)
(* The layered map: make, set, clear, get.                                 *)
(***************************************************************************)
make == [optimistic |-> [n \in {} |-> EmptyMap], base |-> EmptyMap, keys |-> <<>>]

setAlwaysOpens(m, key, value, optimisticKey) ==
  IF Truthy(optimisticKey)
  THEN LET n == optimisticKey[1]
       IN  [m EXCEPT !.optimistic = DictSet(m.optimistic, n, MapSet(EmptyMap, key, value)),
                     !.keys = Unshift(m.keys, n)]
  ELSE IF value = Undefined
  THEN [m EXCEPT !.base = MapDelete(m.base, key)]
  ELSE [m EXCEPT !.base = MapSet(m.base, key, value)]

setKeepsUndefined(m, key, value, optimisticKey) ==
  IF Truthy(optimisticKey)
  THEN LET n == optimisticKey[1]
           m1 == IF n \notin DOMAIN m.optimistic
                 THEN [m EXCEPT !.optimistic = DictSet(m.optimistic, n, EmptyMap),
                                !.keys = Unshift(m.keys, n)]
                 ELSE m
       IN  [m1 EXCEPT !.optimistic = DictSet(m1.optimistic, n,
                                             MapSet(m1.optimistic[n], key, value))]
  ELSE [m EXCEPT !.base = MapSet(m.base, key, value)]

set(m, key, value, optimisticKey) ==
  IF Truthy(optimisticKey)
  THEN LET n == optimisticKey[1]
           m1 == IF n \notin DOMAIN m.optimistic
                 THEN [m EXCEPT !.optimistic = DictSet(m.optimistic, n, EmptyMap),
                                !.keys = Unshift(m.keys, n)]
                 ELSE m
       IN  [m1 EXCEPT !.optimistic = DictSet(m1.optimistic, n,
                                             MapSet(m1.optimistic[n], key, value))]
  ELSE IF value = Undefined
  THEN [m EXCEPT !.base = MapDelete(m.base, key)]
  ELSE [m EXCEPT !.base = MapSet(m.base, key, value)]

clearNoGuard(m, n) ==
  LET index == IndexOf(m.keys, n)
  IN  [m EXCEPT !.optimistic = DictDelete(m.optimistic, n),
                !.keys = SpliceOne(m.keys, index)]

clearKeepsOverlay(m, n) ==
  LET index == IndexOf(m.keys, n)
  IN  IF index > -1
      THEN [m EXCEPT !.keys = SpliceOne(m.keys, index)]
      ELSE m

clear(m, n) ==
  LET index == IndexOf(m.keys, n)
  IN  IF index > -1
      THEN [m EXCEPT !.optimistic = DictDelete(m.optimistic, n),
                     !.keys = SpliceOne(m.keys, index)]
      ELSE m

\* The loop of get, from position i (1-based) of map.keys on.
RECURSIVE getFrom(_, _, _)
getFrom(m, key, i) ==
  IF i > Len(m.keys)
  THEN MapGet(m.base, key)
  ELSE LET optimistic == m.optimistic[m.keys[i]]
       IN  IF MapHas(optimistic, key)
           THEN MapGet(optimistic, key)
           ELSE getFrom(m, key, i + 1)

RECURSIVE getFromDefined(_, _, _)
getFromDefined(m, key, i) ==
  IF i > Len(m.keys)
  THEN MapGet(m.base, key)
  ELSE LET optimistic == m.optimistic[m.keys[i]]
       IN  IF MapGet(optimistic, key) # Undefined
           THEN MapGet(optimistic, key)
           ELSE getFromDefined(m, key, i + 1)

getSkipsTombstones(m, key) == getFromDefined(m, key, 1)

get(m, key) == getFrom(m, key, 1)

\* The container after get: the loop only calls has and get of the maps.
mapAfterGet(m, key) == m

(***************************************************************************)
(* History of the layered map: the open layers in the order in which they  *)
(* were opened, oldest first.  A layer is opened by the set that finds no  *)
(* overlay for its id and is closed by the clear that removes its overlay. *)
(***************************************************************************)
openedAfterSet(o, m, optimisticKey) ==
  IF Truthy(optimisticKey) /\ optimisticKey[1] \notin DOMAIN m.optimistic
  THEN Append(o, optimisticKey[1])
  ELSE o

openedAfterClear(o, m, n) ==
  IF n \in DOMAIN m.optimistic THEN SelectSeq(o, LAMBDA x : x # n) ELSE o

(***************************************************************************)
(* Schema predicates.  The constructor takes an introspected schema, the   *)
(* result of an introspection query: its types carry the introspection     *)
(* kinds OBJECT, INTERFACE and UNION, and a root operation type that the   *)
(* schema does not declare is null.                                        *)
(***************************************************************************)
\* JavaScript null where a name is expected; no GraphQL name has this spelling.
JsNull == "<null>"

\* Kind of the graphql library, the kinds of the nodes of a parsed document.
KindObjectTypeDefinition == "ObjectTypeDefinition"

KindInterfaceTypeDefinition == "InterfaceTypeDefinition"

KindUnionTypeDefinition == "UnionTypeDefinition"

KindNonNullType == "NonNullType"

KindNamedType == "NamedType"

\* One field of an introspected type: its type is NON_NULL or a nullable scalar.
IntroField(name, nonNull) ==
  [name |-> name, typeKind |-> IF nonNull THEN "NON_NULL" ELSE "SCALAR"]

\* The schemas the constructor is called with: interface Node, union UnionType,
\* object types Todo and User, with every choice of the possible types of the
\* two abstract types, of the nullability of Node.id and Todo.text, and of the
\* root operation types.
ObjectNames == {"Todo", "User"}

SeqOfNames(S) ==
  IF S = {} THEN <<>>
  ELSE IF S = {"Todo"} THEN <<"Todo">>
  ELSE IF S = {"User"} THEN <<"User">>
  ELSE <<"User", "Todo">>

IntroTypes(nodeTypes, unionTypes, nodeIdNonNull, todoTextNonNull) ==
  << [kind |-> "INTERFACE", name |-> "Node",
      fields |-> <<IntroField("id", nodeIdNonNull)>>,
      possibleTypes |-> SeqOfNames(nodeTypes)],
     [kind |-> "UNION", name |-> "UnionType",
      fields |-> <<>>,
      possibleTypes |-> SeqOfNames(unionTypes)],
     [kind |-> "OBJECT", name |-> "Todo",
      fields |-> <<IntroField("id", TRUE), IntroField("text", todoTextNonNull)>>,
      possibleTypes |-> <<>>],
     [kind |-> "OBJECT", name |-> "User",
      fields |-> <<IntroField("id", TRUE)>>,
      possibleTypes |-> <<>>] >>

NoSchema ==
  [given |-> FALSE, queryType |-> JsNull, mutationType |-> JsNull,
   subscriptionType |-> JsNull, types |-> <<>>]

Schemas ==
  { [given |-> TRUE, queryType |-> q, mutationType |-> m, subscriptionType |-> s,
     types |-> IntroTypes(nt, ut, nn, tn)] :
      q \in {"Query", "RootQuery"},
      m \in {JsNull, "Mutation", "RootMutation"},
      s \in {JsNull, "Subscription"},
      nt \in SUBSET ObjectNames, ut \in SUBSET ObjectNames,
      nn \in BOOLEAN, tn \in BOOLEAN }

SchemaArgs == Schemas \cup {NoSchema}

RootFieldNames == {"query", "mutation", "subscription"}

TypeNameArgs == {"Node", "UnionType", "Todo", "User", "Comment"}

FieldNameArgs == {"id", "text", "done"}

\* parse(printSchema(buildClientSchema(schema))): the definitions of the printed
\* schema, one per type, with the kinds of document nodes.
parseSchema(schema) ==
  [i \in 1..Len(schema.types) |->
     LET type == schema.types[i]
     IN  [kind |-> IF type.kind = "OBJECT" THEN KindObjectTypeDefinition
                   ELSE IF type.kind = "INTERFACE" THEN KindInterfaceTypeDefinition
                   ELSE KindUnionTypeDefinition,
          name |-> type.name,
          fields |-> [j \in 1..Len(type.fields) |->
                        [name |-> type.fields[j].name,
                         typeKind |-> IF type.fields[j].typeKind = "NON_NULL"
                                      THEN KindNonNullType
                                      ELSE KindNamedType]]]]

\* The forEach of the constructor: an entry of fragTypes for every type whose
\* kind is that of a union or interface definition node.
isAbstractKind(kind) ==
  kind = KindUnionTypeDefinition \/ kind = KindInterfaceTypeDefinition

collectFragTypes(types) ==
  LET hits == {i \in 1..Len(types) : isAbstractKind(types[i].kind)}
      last(name) == CHOOSE i \in hits :
                      /\ types[i].name = name
                      /\ \A j \in hits : types[j].name = name => j <= i
  IN  [name \in {types[i].name : i \in hits} |-> types[last(name)].possibleTypes]

\* x && x.name
andName(x) == x

rootFieldsOfSchema(schema) ==
  [query |-> andName(schema.queryType),
   mutation |-> andName(schema.mutationType),
   subscription |-> andName(schema.subscriptionType)]

defaultRootFields ==
  [query |-> "Query", mutation |-> "Mutation", subscription |-> "Subscription"]

\* new SchemaPredicates(schema)
SchemaPredicates(schema) ==
  IF schema.given
  THEN [hasSchema |-> TRUE, schema |-> parseSchema(schema),
        hasFragTypes |-> TRUE, fragTypes |-> collectFragTypes(schema.types),
        rootFields |-> rootFieldsOfSchema(schema)]
  ELSE [hasSchema |-> FALSE, schema |-> <<>>,
        hasFragTypes |-> FALSE, fragTypes |-> [n \in {} |-> <<>>],
        rootFields |-> defaultRootFields]

getRootKey(self, name) == self.rootFields[name]

\* this.schema.definitions.find(...): the position of the first object type
\* definition named typename, 0 for none (find answers undefined).
findObjectTypeNode(definitions, typename) ==
  LET hit(i) == definitions[i].kind = KindObjectTypeDefinition
                /\ definitions[i].name = typename
  IN  IF \E i \in 1..Len(definitions) : hit(i)
      THEN CHOOSE i \in 1..Len(definitions) : hit(i) /\ \A j \in 1..(i - 1) : ~hit(j)
      ELSE 0

\* fields.find(...): the position of the first field named fieldName, 0 for none.
findField(fields, fieldName) ==
  LET hit(i) == fields[i].name = fieldName
  IN  IF \E i \in 1..Len(fields) : hit(i)
      THEN CHOOSE i \in 1..Len(fields) : hit(i) /\ \A j \in 1..(i - 1) : ~hit(j)
      ELSE 0

isFieldNullable(self, typename, fieldName) ==
  IF ~self.hasSchema THEN TRUE
  ELSE LET o == findObjectTypeNode(self.schema, typename)
       IN  IF o = 0 THEN TRUE
           ELSE LET fields == self.schema[o].fields
                    f == findField(fields, fieldName)
                IN  IF f = 0 THEN TRUE
                    ELSE fields[f].typeKind # KindNonNullType

\* Array.prototype.includes
Includes(s, x) == \E i \in 1..Len(s) : s[i] = x

isInterfaceOfTypeNoDefault(self, typeCondition, typename) ==
  IF typename = typeCondition THEN TRUE
  ELSE IF typeCondition \in DOMAIN self.fragTypes
          /\ Includes(self.fragTypes[typeCondition], typename)
  THEN TRUE
  ELSE FALSE

isInterfaceOfType(self, typeCondition, typename) ==
  IF typename = typeCondition THEN TRUE
  ELSE IF ~self.hasFragTypes THEN TRUE
  ELSE IF typeCondition \in DOMAIN self.fragTypes
          /\ Includes(self.fragTypes[typeCondition], typename)
  THEN TRUE
  ELSE FALSE

\* The last call on the SchemaPredicates object and what it returned.
NoCall == [op |-> "none", a |-> "", b |-> "", bool |-> FALSE, name |-> ""]

(***************************************************************************)
(* The store: entity records and links.  An entity is an object with an    *)
(* identity (ref, the number of its creation) and fields; a field slot is  *)
(* absent, a scalar, or present with the value undefined (a link).         *)
(***************************************************************************)
\* The entity keys and the one cached field the store is used with.
EntityKeys == {"Todo:1", "User:1"}

FieldNames == {"f", "g"}

\* The arguments of a field: none (null), or one argument object, serialized.
NoArgs == ""

ArgsArgs == {NoArgs, "{\"first\":1}"}

\* Entities created by findOrCreate are numbered 1..MaxEntities, in order.
MaxEntities == 3

\* Object.create(null): an object with no fields.
EmptyFields == [x \in {} |-> Undefined]

\* null where an entity is expected.
NullRef == 0

NullEntity == [ref |-> NullRef, fields |-> EmptyFields]

\* Link: null | key | array of (key | null); readLink also answers undefined.
UndefinedLink == [tag |-> "undefined", key |-> "", items |-> <<>>]

NullLink == [tag |-> "null", key |-> "", items |-> <<>>]

KeyLink(k) == [tag |-> "key", key |-> k, items |-> <<>>]

ArrayLink(items) == [tag |-> "array", key |-> "", items |-> items]

LinkArgs ==
  {NullLink} \cup {KeyLink(k) : k \in EntityKeys}
  \cup {ArrayLink(a) : a \in {<<>>, <<"Todo:1", JsNull>>, <<JsNull, "User:1">>,
                              <<"User:1", "Todo:1">>}}

\* ResolverResult: null, a scalar, an entity, or an array of entities and nulls.
NullResult == [tag |-> "null", scalar |-> "", entity |-> NullEntity, items |-> <<>>]

ScalarResult(v) == [tag |-> "scalar", scalar |-> v, entity |-> NullEntity, items |-> <<>>]

EntityResult(e) ==
  IF e = NullEntity THEN NullResult
  ELSE [tag |-> "entity", scalar |-> "", entity |-> e, items |-> <<>>]

ArrayResult(items) ==
  [tag |-> "array", scalar |-> "", entity |-> NullEntity, items |-> items]

\* keyOfEntity: null without __typename or without id and _id, else
\* "<typename>:<id>", id before _id.
keyOfEntity(obj) ==
  IF "__typename" \notin DOMAIN obj THEN JsNull
  ELSE IF "id" \in DOMAIN obj THEN obj["__typename"] \o ":" \o obj["id"]
  ELSE IF "_id" \in DOMAIN obj THEN obj["__typename"] \o ":" \o obj["_id"]
  ELSE JsNull

\* keyOfField: the name alone without arguments, else the name and the
\* serialized arguments.
keyOfField(name, args) ==
  IF args = NoArgs THEN name ELSE name \o "(" \o args \o ")"

\* joinKeys: the two keys with a separator.
joinKeys(a, b) == a \o "." \o b

LinkKeys == {joinKeys(k, "f") : k \in EntityKeys}

\* new Store()
newStore == [records |-> [k \in {} |-> NullEntity],
             links |-> [k \in {} |-> NullLink],
             created |-> 0]

find(s, key) == IF key \in DOMAIN s.records THEN s.records[key] ELSE NullEntity

findOrCreateAlwaysCreates(s, key) ==
  LET record == [ref |-> s.created + 1, fields |-> EmptyFields]
  IN  [store |-> [s EXCEPT !.records = MapSet(s.records, key, record),
                           !.created = s.created + 1],
       entity |-> record]

\* findOrCreate answers the entity and the store after the call.
findOrCreate(s, key) ==
  LET entity == find(s, key)
  IN  IF entity # NullEntity
      THEN [store |-> s, entity |-> entity]
      ELSE LET record == [ref |-> s.created + 1, fields |-> EmptyFields]
           IN  [store |-> [s EXCEPT !.records = MapSet(s.records, key, record),
                                    !.created = s.created + 1],
                entity |-> record]

readLink(s, key) == IF key \in DOMAIN s.links THEN s.links[key] ELSE UndefinedLink

removeCascades(s, key) ==
  [s EXCEPT !.records = MapDelete(s.records, key),
            !.links = [k \in {x \in DOMAIN s.links : s.links[x] # KeyLink(key)}
                         |-> s.links[k]]]

remove(s, key) == [s EXCEPT !.records = MapDelete(s.records, key)]

setLinkNullDeletes(s, key, link) ==
  IF link = NullLink
  THEN [s EXCEPT !.links = MapDelete(s.links, key)]
  ELSE [s EXCEPT !.links = MapSet(s.links, key, link)]

setLink(s, key, link) == [s EXCEPT !.links = MapSet(s.links, key, link)]

removeLink(s, key) == [s EXCEPT !.links = MapDelete(s.links, key)]

resolveEntity(s, entity) ==
  LET key == keyOfEntity(entity)
  IN  IF key # JsNull THEN find(s, key) ELSE NullEntity

\* fieldValue === undefined && fieldKey in parent: the slot holds a link.
isLinkSlotNoIn(parent, fieldKey) == MapGet(parent, fieldKey) = Undefined

isLinkSlot(parent, fieldKey) ==
  MapGet(parent, fieldKey) = Undefined /\ fieldKey \in DOMAIN parent

\* link.map(key => (key !== null ? this.find(key) : null))
resolveLinkArrayDropsNulls(s, items) ==
  LET keys == SelectSeq(items, LAMBDA key : key # JsNull /\ key \in DOMAIN s.records)
  IN  [i \in 1..Len(keys) |-> find(s, keys[i])]

resolveLinkArray(s, items) ==
  [i \in 1..Len(items) |->
     IF items[i] # JsNull THEN find(s, items[i]) ELSE NullEntity]

\* link ? this.find(link) : null, for a link that is no array: null, undefined
\* and the empty string are falsy.
resolveSingleLinkCreates(s, link) ==
  IF link.tag = "key" THEN EntityResult(findOrCreate(s, link.key).entity)
  ELSE NullResult

resolveSingleLink(s, link) ==
  IF link.tag = "key" /\ link.key # "" THEN EntityResult(find(s, link.key))
  ELSE NullResult

\* resolveProperty answers the result and the keys it passed to readLink.
resolveProperty(s, parent, field, args) ==
  LET fieldKey == keyOfField(field, args)
      fieldValue == MapGet(parent, fieldKey)
  IN  IF isLinkSlot(parent, fieldKey)
      THEN LET entityKey == keyOfEntity(parent)
           IN  IF entityKey = JsNull
               THEN [result |-> NullResult, linksRead |-> {}]
               ELSE LET link == readLink(s, joinKeys(entityKey, fieldKey))
                    IN  [result |->
                           IF link.tag = "array"
                           THEN ArrayResult(resolveLinkArray(s, link.items))
                           ELSE resolveSingleLink(s, link),
                         linksRead |-> {joinKeys(entityKey, fieldKey)}]
      ELSE IF fieldValue = Undefined
      THEN [result |-> NullResult, linksRead |-> {}]
      ELSE [result |-> ScalarResult(fieldValue), linksRead |-> {}]

\* The store after a read.  records.get and links.get write nothing; the other
\* reads leave what the finds and readLinks they call leave.
storeAfterFindCreates(s, key) == findOrCreate(s, key).store

storeAfterFind(s, key) == s

storeAfterReadLink(s, key) == s

storeAfterResolveEntity(s, entity) ==
  LET key == keyOfEntity(entity)
  IN  IF key # JsNull THEN storeAfterFind(s, key) ELSE s

RECURSIVE storeAfterLinkArray(_, _, _)
storeAfterLinkArray(s, items, i) ==
  IF i > Len(items) THEN s
  ELSE storeAfterLinkArray(
         IF items[i] # JsNull THEN storeAfterFind(s, items[i]) ELSE s,
         items, i + 1)

storeAfterResolveProperty(s, parent, field, args) ==
  LET fieldKey == keyOfField(field, args)
  IN  IF isLinkSlot(parent, fieldKey)
      THEN LET entityKey == keyOfEntity(parent)
           IN  IF entityKey = JsNull THEN s
               ELSE LET linkKey == joinKeys(entityKey, fieldKey)
                        s1 == storeAfterReadLink(s, linkKey)
                        link == readLink(s, linkKey)
                    IN  IF link.tag = "array"
                        THEN storeAfterLinkArray(s1, link.items, 1)
                        ELSE IF link.tag = "key" /\ link.key # ""
                        THEN storeAfterFind(s1, link.key)
                        ELSE s1
      ELSE s

\* The write traversal fills the entity it got from findOrCreate: the system
\* fields of its key and the slot of field f (absent, a scalar, or undefined
\* for a link).
TypenameOf(key) == IF key = "Todo:1" THEN "Todo" ELSE "User"

SlotArgs == {"absent", "a", Undefined}

writtenFields(key, slot) ==
  LET sys == MapSet(MapSet(EmptyFields, "__typename", TypenameOf(key)), "id", "1")
  IN  IF slot = "absent" THEN sys ELSE MapSet(sys, "f", slot)

writeEntity(s, key, slot) ==
  [s EXCEPT !.records[key].fields = writtenFields(key, slot)]

\* The parents resolveProperty is called with: the entities of the store and
\* objects that are not normalizable.
ForeignParents ==
  {EmptyFields,
   MapSet(EmptyFields, "f", Undefined),
   MapSet(MapSet(EmptyFields, "__typename", "Todo"), "f", Undefined),
   MapSet(MapSet(EmptyFields, "__typename", "Todo"), "f", "a"),
   MapSet(MapSet(MapSet(EmptyFields, "__typename", "User"), "_id", "1"), "f", Undefined)}

ParentArgs(s) == ForeignParents \cup {s.records[k].fields : k \in DOMAIN s.records}

\* History of the links: per link key, the link of the last setLink since the
\* store was created or since the last removeLink of the key, else undefined.
histAfterSetLink(h, key, link) == [h EXCEPT ![key] = link]

histAfterRemoveLink(h, key) == [h EXCEPT ![key] = UndefinedLink]

(***************************************************************************)
(* Actions of the store.                                                   *)
(***************************************************************************)
Find ==
  \E key \in EntityKeys :
    /\ find(store, key) \in {NullEntity} \cup {store.records[k] : k \in DOMAIN store.records}
    /\ store' = storeAfterFind(store, key)
    /\ UNCHANGED <<mapVars, schemaVars, linkHist, populateVars>>

FindOrCreate ==
  \E key \in EntityKeys :
    /\ key \in DOMAIN store.records \/ store.created < MaxEntities
    /\ store' = findOrCreate(store, key).store
    /\ UNCHANGED <<mapVars, schemaVars, linkHist, populateVars>>

ReadLink ==
  \E key \in LinkKeys :
    /\ readLink(store, key) \in LinkArgs \cup {UndefinedLink}
    /\ store' = storeAfterReadLink(store, key)
    /\ UNCHANGED <<mapVars, schemaVars, linkHist, populateVars>>

Remove ==
  \E key \in EntityKeys :
    /\ store' = remove(store, key)
    /\ UNCHANGED <<mapVars, schemaVars, linkHist, populateVars>>

SetLink ==
  \E key \in LinkKeys, link \in LinkArgs :
    /\ store' = setLink(store, key, link)
    /\ linkHist' = histAfterSetLink(linkHist, key, link)
    /\ UNCHANGED <<mapVars, schemaVars, populateVars>>

RemoveLink ==
  \E key \in LinkKeys :
    /\ store' = removeLink(store, key)
    /\ linkHist' = histAfterRemoveLink(linkHist, key)
    /\ UNCHANGED <<mapVars, schemaVars, populateVars>>

ResolveEntity ==
  \E entity \in ParentArgs(store) :
    /\ resolveEntity(store, entity) \in
         {NullEntity} \cup {store.records[k] : k \in DOMAIN store.records}
    /\ store' = storeAfterResolveEntity(store, entity)
    /\ UNCHANGED <<mapVars, schemaVars, linkHist, populateVars>>

ResolveProperty ==
  \E parent \in ParentArgs(store), field \in FieldNames, args \in ArgsArgs :
    /\ resolveProperty(store, parent, field, args).result.tag
         \in {"null", "scalar", "entity", "array"}
    /\ store' = storeAfterResolveProperty(store, parent, field, args)
    /\ UNCHANGED <<mapVars, schemaVars, linkHist, populateVars>>

WriteEntity ==
  \E key \in DOMAIN store.records, slot \in SlotArgs :
    /\ store' = writeEntity(store, key, slot)
    /\ UNCHANGED <<mapVars, schemaVars, linkHist, populateVars>>

(***************************************************************************)
(* Actions of the layered map.                                             *)
(***************************************************************************)
Set ==
  \E key \in Keys, value \in MaybeVals, optimisticKey \in OptKeys :
    /\ map' = set(map, key, value, optimisticKey)
    /\ opened' = openedAfterSet(opened, map, optimisticKey)
    /\ UNCHANGED <<schemaVars, storeVars, populateVars>>

Clear ==
  \E n \in LayerIds :
    /\ map' = clear(map, n)
    /\ opened' = openedAfterClear(opened, map, n)
    /\ UNCHANGED <<schemaVars, storeVars, populateVars>>

\* get reads the container and answers a value of T or undefined.
Get ==
  \E key \in Keys :
    /\ get(map, key) \in MaybeVals
    /\ map' = mapAfterGet(map, key)
    /\ UNCHANGED <<opened, schemaVars, storeVars, populateVars>>

(***************************************************************************)
(* Actions of the schema predicates.                                       *)
(***************************************************************************)
GetRootKey ==
  \E name \in RootFieldNames :
    /\ out' = [op |-> "getRootKey", a |-> name, b |-> "", bool |-> FALSE,
               name |-> getRootKey(sp, name)]
    /\ UNCHANGED <<mapVars, schemaIn, sp, storeVars, populateVars>>

IsFieldNullable ==
  \E typename \in TypeNameArgs, fieldName \in FieldNameArgs :
    /\ out' = [op |-> "isFieldNullable", a |-> typename, b |-> fieldName,
               bool |-> isFieldNullable(sp, typename, fieldName), name |-> ""]
    /\ UNCHANGED <<mapVars, schemaIn, sp, storeVars, populateVars>>

IsInterfaceOfType ==
  \E typeCondition \in TypeNameArgs, typename \in TypeNameArgs :
    /\ out' = [op |-> "isInterfaceOfType", a |-> typeCondition, b |-> typename,
               bool |-> isInterfaceOfType(sp, typeCondition, typename), name |-> ""]
    /\ UNCHANGED <<mapVars, schemaIn, sp, storeVars, populateVars>>

(***************************************************************************)
(* Specifications.  Spec: the layered map under every sequence of set,     *)
(* clear and get.  SchemaSpec: a SchemaPredicates object constructed from  *)
(* any of the schemas, or from none, under every sequence of its calls.    *)
(***************************************************************************)
\* ---------------------------------------------------------------------------
\* The document-augmentation exchange (populateExchange) on the stream of
\* operations.  A document is modelled by the field names it requests.
\* ---------------------------------------------------------------------------

MaxOps == 3

TypenameField == "__typename"

\* schemaDef: the object types a return type can stand for.
possibleTypesOf(t) ==
  CASE t = "Todo" -> {"Todo"}
    [] t = "User" -> {"User"}
    [] t = "Node" -> {"User", "Todo"}
    [] t = "UnionType" -> {"User", "Todo"}
    [] OTHER -> {}

QueryKeys == {1234, 1235, 1236}

MutationKeys == {5678, 5679, 5680}

\* The selections of a query document, per type of the schema: the fields it
\* requests on objects of that type.
selectionsOf(key) ==
  CASE key = 1234 -> [t \in {"Todo"} |-> {"id", "text"}]
    [] key = 1235 ->
         [t \in {"Todo", "User"} |->
            IF t = "Todo" THEN {"id", "text", "creator"}
            ELSE {"id", "name", "todos"}]
    [] key = 1236 -> [t \in {"User"} |-> {"name", "age"}]

\* A mutation document: its own fields, whether its selection carries
\* @populate, and the return type of the annotated field.
mutationOf(key) ==
  CASE key = 5678 ->
         [own |-> {"addTodo", "todo"}, populate |-> TRUE, type |-> "Todo"]
    [] key = 5679 ->
         [own |-> {"removeTodo", "todo"}, populate |-> TRUE, type |-> "Node"]
    [] key = 5680 ->
         [own |-> {"addTodo", "todo", "id"}, populate |-> FALSE,
          type |-> "Todo"]

Operation(key, name) == [key |-> key, operationName |-> name]

Forwarded(op, fields) ==
  [key |-> op.key, operationName |-> op.operationName, fields |-> fields]

AllFields(fns) == UNION {fns[t] : t \in DOMAIN fns}

\* A query registers its selections per type under its key and becomes active.
handleIncomingQuery(frags, active, op) ==
  [typeFragments |->
     frags \cup {[key |-> op.key, type |-> t,
                  fields |-> selectionsOf(op.key)[t]] :
                   t \in DOMAIN selectionsOf(op.key)},
   activeOperations |-> active \cup {op.key}]

handleIncomingTeardownKeeps(frags, active, op) ==
  [typeFragments |-> frags, activeOperations |-> active]

\* A teardown makes the operation of that key inactive.
handleIncomingTeardown(frags, active, op) ==
  [typeFragments |-> frags, activeOperations |-> active \ {op.key}]

\* The selections of active queries on the types the field can return.
getActiveTypeFragments(frags, active, type) ==
  {f \in frags : f.key \in active /\ f.type \in possibleTypesOf(type)}

\* A mutation is forwarded with its @populate selection extended by __typename
\* and the fields of the active selections; other mutations are unchanged.
handleIncomingMutation(frags, active, op) ==
  LET m == mutationOf(op.key) IN
    IF m.populate
    THEN m.own \cup {TypenameField}
         \cup UNION {f.fields :
                       f \in getActiveTypeFragments(frags, active, m.type)}
    ELSE m.own

IncomingQuery ==
  \E key \in QueryKeys :
    LET op == Operation(key, "query")
        r == handleIncomingQuery(typeFragments, activeOperations, op) IN
      /\ Len(stream) < MaxOps
      /\ typeFragments' = r.typeFragments
      /\ activeOperations' = r.activeOperations
      /\ stream' = Append(stream, op)
      /\ forwarded' =
           Append(forwarded, Forwarded(op, AllFields(selectionsOf(key))))
      /\ UNCHANGED <<mapVars, schemaVars, storeVars>>

IncomingTeardown ==
  \E key \in QueryKeys :
    LET op == Operation(key, "teardown")
        r == handleIncomingTeardown(typeFragments, activeOperations, op) IN
      /\ Len(stream) < MaxOps
      /\ typeFragments' = r.typeFragments
      /\ activeOperations' = r.activeOperations
      /\ stream' = Append(stream, op)
      /\ forwarded' = Append(forwarded, Forwarded(op, {}))
      /\ UNCHANGED <<mapVars, schemaVars, storeVars>>

IncomingMutation ==
  \E key \in MutationKeys :
    LET op == Operation(key, "mutation") IN
      /\ Len(stream) < MaxOps
      /\ stream' = Append(stream, op)
      /\ forwarded' =
           Append(forwarded,
                  Forwarded(op, handleIncomingMutation(typeFragments,
                                                       activeOperations, op)))
      /\ UNCHANGED <<mapVars, schemaVars, storeVars, typeFragments,
                     activeOperations>>

Init ==
  /\ map = make
  /\ opened = <<>>
  /\ schemaIn = NoSchema
  /\ sp = SchemaPredicates(NoSchema)
  /\ out = NoCall
  /\ store = newStore
  /\ linkHist = [k \in LinkKeys |-> UndefinedLink]
  /\ typeFragments = {}
  /\ activeOperations = {}
  /\ stream = <<>>
  /\ forwarded = <<>>

Next == Set \/ Clear \/ Get

Spec == Init /\ [][Next]_vars

SchemaInit ==
  /\ map = make
  /\ opened = <<>>
  /\ schemaIn \in SchemaArgs
  /\ sp = SchemaPredicates(schemaIn)
  /\ out = NoCall
  /\ store = newStore
  /\ linkHist = [k \in LinkKeys |-> UndefinedLink]
  /\ typeFragments = {}
  /\ activeOperations = {}
  /\ stream = <<>>
  /\ forwarded = <<>>

SchemaNext == GetRootKey \/ IsFieldNullable \/ IsInterfaceOfType

SchemaSpec == SchemaInit /\ [][SchemaNext]_vars

StoreNext ==
  \/ Find \/ FindOrCreate \/ ReadLink \/ Remove \/ SetLink \/ RemoveLink
  \/ ResolveEntity \/ ResolveProperty \/ WriteEntity

StoreSpec == Init /\ [][StoreNext]_vars

\* The container and the store are separate objects that share no state: a
\* behaviour of ReadSpec exercises one of them.
ReadNext ==
  \/ store = newStore /\ Next
  \/ map = make /\ StoreNext

ReadSpec == Init /\ [][ReadNext]_vars

PopulateNext == IncomingQuery \/ IncomingTeardown \/ IncomingMutation

PopulateSpec == Init /\ [][PopulateNext]_vars

(***************************************************************************)
(* Properties of the layered map, checked under Spec.                      *)
(***************************************************************************)
\* The open layers that hold key, as positions of the opening order.
Holders(key) ==
  {i \in 1..Len(opened) : MapHas(map.optimistic[opened[i]], key)}

MaxOf(S) == CHOOSE i \in S : \A j \in S : j <= i

\* The open layers other than n hold no entry for key.
NoOtherLayerHolds(key, n) ==
  \A x \in DOMAIN map.optimistic \ {n} : ~MapHas(map.optimistic[x], key)

\* C1: optimistic isolation.  For every key k, values v1 and v2 and every
\* numeric layer id L, 0 included, from a reachable container in which no other
\* open layer holds k: set(k, v1, null) then set(k, v2, L) makes get(k) return
\* v2, and clear(L) then makes get(k) return v1 again.
C1_OptimisticIsolation ==
  \A k \in Keys, v1 \in MaybeVals, v2 \in MaybeVals, L \in LayerIds :
    NoOtherLayerHolds(k, L) =>
      LET m1 == set(map, k, v1, Null)
          m2 == set(m1, k, v2, Num(L))
      IN  /\ get(m2, k) = v2
          /\ get(clear(m2, L), k) = v1

\* C2: layer precedence follows the order of opening.  For a key held by open
\* layers, get returns the value of the most recently opened layer holding it
\* (a write into an older open layer does not move that layer); once that
\* layer is cleared get returns the value of the next most recently opened
\* holder, and the base value only when no open layer holds the key.
C2_LayerPrecedence ==
  \A k \in Keys :
    LET h == Holders(k)
    IN  IF h = {}
        THEN get(map, k) = MapGet(map.base, k)
        ELSE LET top == opened[MaxOf(h)]
                 rest == h \ {MaxOf(h)}
                 m2 == clear(map, top)
             IN  /\ get(map, k) = map.optimistic[top][k]
                 /\ IF rest = {}
                    THEN get(m2, k) = MapGet(map.base, k)
                    ELSE get(m2, k) = map.optimistic[opened[MaxOf(rest)]][k]

\* Two open layers and the base hold the same key; the newer layer's value
\* differs from the older layer's.
C2_Witness ==
  /\ Len(opened) = 2
  /\ MapHas(map.base, "k1")
  /\ Holders("k1") = {1, 2}
  /\ map.optimistic[opened[1]]["k1"] # map.optimistic[opened[2]]["k1"]
  /\ map.base["k1"] = map.optimistic[opened[1]]["k1"]

\* C3: tombstone shadowing.  If the newest open layer that has key k present
\* stores undefined for k, get(k) returns undefined even when an older layer or
\* the base holds a defined value; get never falls through a layer that has k.
C3_TombstoneShadowing ==
  \A k \in Keys :
    Holders(k) # {} =>
      LET newest == map.optimistic[opened[MaxOf(Holders(k))]]
      IN  /\ newest[k] = Undefined => get(map, k) = Undefined
          /\ get(map, k) = MapGet(newest, k)

\* The newest layer holding k1 stores a tombstone for it, an older layer and
\* the base hold defined values.
C3_Witness ==
  /\ Holders("k1") = {1, 2}
  /\ map.optimistic[opened[2]]["k1"] = Undefined
  /\ map.optimistic[opened[1]]["k1"] \in Vals
  /\ MapGet(map.base, "k1") \in Vals

\* C4: a layer-scoped write never touches base or other layers.  For every
\* numeric layer id L, 0 included, every key and every value, set(key, value, L)
\* leaves the base mapping and the overlay of every layer other than L unchanged.
C4_LayerWriteFrame ==
  \A L \in LayerIds, k \in Keys, v \in MaybeVals :
    LET m2 == set(map, k, v, Num(L))
    IN  /\ m2.base = map.base
        /\ \A n \in DOMAIN map.optimistic \ {L} :
             n \in DOMAIN m2.optimistic /\ m2.optimistic[n] = map.optimistic[n]

\* C5: at most one overlay per layer id.  The layer order holds no duplicate
\* and holds exactly the ids that have an overlay; a set on an open layer adds
\* the key to the existing overlay, keeps its other entries and adds no entry
\* to the layer order.
C5_OneOverlayPerLayer ==
  /\ \A i, j \in 1..Len(map.keys) : map.keys[i] = map.keys[j] => i = j
  /\ {map.keys[i] : i \in 1..Len(map.keys)} = DOMAIN map.optimistic
  /\ \A n \in DOMAIN map.optimistic, k \in Keys, v \in MaybeVals :
       LET m2 == set(map, k, v, Num(n))
       IN  /\ m2.keys = map.keys
           /\ DOMAIN m2.optimistic = DOMAIN map.optimistic
           /\ DOMAIN m2.optimistic[n] = DOMAIN map.optimistic[n] \cup {k}
           /\ m2.optimistic[n][k] = v
           /\ \A x \in DOMAIN map.optimistic[n] \ {k} :
                m2.optimistic[n][x] = map.optimistic[n][x]

\* Two layers are open and one of them has been written twice: its overlay
\* holds both keys.
C5_Witness ==
  /\ Len(map.keys) = 2
  /\ \E n \in DOMAIN map.optimistic : DOMAIN map.optimistic[n] = Keys

\* C6: clear is total and idempotent.  clear(L) on a layer id that is not open
\* leaves base, overlays and layer order unchanged, and for every L clear(L)
\* twice yields the same container as clear(L) once.
C6_ClearIdempotent ==
  \A L \in LayerIds :
    /\ L \notin DOMAIN map.optimistic => clear(map, L) = map
    /\ clear(clear(map, L), L) = clear(map, L)

\* One layer is open and holds entries, another id is not open, and clearing
\* the open one changes the container.
C6_Witness ==
  /\ Len(map.keys) = 1
  /\ \E L \in LayerIds \ {0} : L \notin DOMAIN map.optimistic
  /\ clear(map, map.keys[1]) # map
  /\ map.base # EmptyMap

C17_BaseWrites ==
  /\ \A k \in DOMAIN map.base : map.base[k] # Undefined
  /\ \A k \in Keys, v \in MaybeVals :
       LET m2 == set(map, k, v, Null)
       IN  /\ m2.optimistic = map.optimistic
           /\ m2.keys = map.keys
           /\ v # Undefined => MapHas(m2.base, k) /\ m2.base[k] = v
           /\ v = Undefined => ~MapHas(m2.base, k)

\* The base holds both keys under one open layer that holds a tombstone.
C17_Witness ==
  /\ DOMAIN map.base = Keys
  /\ Len(map.keys) = 1
  /\ \E k \in DOMAIN map.optimistic[map.keys[1]] :
       map.optimistic[map.keys[1]][k] = Undefined

\* What the layers other than n and the base give for key: the value of the
\* most recently opened layer other than n that holds key, else the base value.
ValueWithout(n, key) ==
  LET h == {i \in Holders(key) : opened[i] # n}
  IN  IF h = {} THEN MapGet(map.base, key)
      ELSE map.optimistic[opened[MaxOf(h)]][key]

\* C19: layers do not survive a clear.  After clear(L) no value written into
\* layer L before the clear is returned by get, for any key, also when L is
\* opened again by a later set with the same id: the reopened layer starts
\* empty and takes the newest position in the layer order.
C19_NoSurvival ==
  \A L \in DOMAIN map.optimistic :
    LET m1 == clear(map, L)
        rest == [k \in Keys |-> ValueWithout(L, k)]
    IN  /\ \A k \in Keys : get(m1, k) = rest[k]
        /\ \A k \in Keys, v \in MaybeVals :
             LET m2 == set(m1, k, v, Num(L))
             IN  /\ m2.optimistic[L] = MapSet(EmptyMap, k, v)
                 /\ m2.keys = <<L>> \o m1.keys
                 /\ get(m2, k) = v
                 /\ \A k2 \in Keys \ {k} : get(m2, k2) = rest[k2]

\* Two layers are open; the older one holds both keys, the newer one only k1,
\* so that clearing and reopening the older one moves it ahead of the newer.
C19_Witness ==
  /\ Len(opened) = 2
  /\ DOMAIN map.optimistic[opened[1]] = Keys
  /\ DOMAIN map.optimistic[opened[2]] = {"k1"}
  /\ map.optimistic[opened[1]]["k2"] \in Vals

(***************************************************************************)
(* Properties of the schema predicates, checked under SchemaSpec.          *)
(***************************************************************************)
\* The possible types that the introspected schema lists for abstract type t
\* (an interface or a union), as a set; empty when it declares no such type.
PossibleTypes(t) ==
  UNION { {schemaIn.types[i].possibleTypes[j] :
             j \in 1..Len(schemaIn.types[i].possibleTypes)} :
          i \in {x \in 1..Len(schemaIn.types) :
                   /\ schemaIn.types[x].name = t
                   /\ schemaIn.types[x].kind \in {"INTERFACE", "UNION"}} }

\* The introspected schema defines type t with field f of a non-null type.
DefinesNonNull(t, f) ==
  \E i \in 1..Len(schemaIn.types) :
    /\ schemaIn.types[i].name = t
    /\ \E j \in 1..Len(schemaIn.types[i].fields) :
         /\ schemaIn.types[i].fields[j].name = f
         /\ schemaIn.types[i].fields[j].typeKind = "NON_NULL"

\* The type name the schema declares for a root operation kind, JsNull for none.
Declared(name) ==
  IF ~schemaIn.given THEN JsNull
  ELSE IF name = "query" THEN schemaIn.queryType
  ELSE IF name = "mutation" THEN schemaIn.mutationType
  ELSE schemaIn.subscriptionType

Conventional(name) ==
  IF name = "query" THEN "Query"
  ELSE IF name = "mutation" THEN "Mutation"
  ELSE "Subscription"

\* C8: with a schema, isInterfaceOfType(abstractType, concreteType) returns true
\* for every concrete type listed among the abstract type's possible types in
\* the introspected schema, and false for a concrete type that is neither equal
\* to the type condition nor among its possible types.
C8_InterfaceOfType ==
  (schemaIn.given /\ out.op = "isInterfaceOfType") =>
    /\ out.b \in PossibleTypes(out.a) => out.bool = TRUE
    /\ (out.b # out.a /\ out.b \notin PossibleTypes(out.a)) => out.bool = FALSE

\* C9: getRootKey(kind) returns the type name the schema declares for the
\* operation kind, and the conventional name Query, Mutation or Subscription
\* whenever that name is unset, with no schema and with a schema that declares
\* no type for the kind; it never returns an undefined or null name.
C9_RootKey ==
  out.op = "getRootKey" =>
    /\ out.name # JsNull
    /\ Declared(out.a) # JsNull => out.name = Declared(out.a)
    /\ Declared(out.a) = JsNull => out.name = Conventional(out.a)

\* C10: with a schema, isFieldNullable(typename, fieldName) returns false
\* exactly when the schema defines typename with a field fieldName whose type is
\* non-null, for object types and interface types alike, and true when the
\* field is nullable or the type or the field is not found.
C10_FieldNullable ==
  (schemaIn.given /\ out.op = "isFieldNullable") =>
    (out.bool = FALSE <=> DefinesNonNull(out.a, out.b))

\* C11: with no schema given isFieldNullable returns true for every
\* (typename, fieldName) and isInterfaceOfType returns true for every
\* (typeCondition, typename); with or without a schema isInterfaceOfType(t, t)
\* returns true for every type name t.
C11_Permissive ==
  /\ (~schemaIn.given /\ out.op = "isFieldNullable") => out.bool = TRUE
  /\ (~schemaIn.given /\ out.op = "isInterfaceOfType") => out.bool = TRUE
  /\ (out.op = "isInterfaceOfType" /\ out.a = out.b) => out.bool = TRUE

\* Without a schema, isInterfaceOfType was asked about two different names.
C11_Witness ==
  /\ ~schemaIn.given
  /\ out.op = "isInterfaceOfType"
  /\ out.a # out.b
  /\ out.bool = TRUE

(***************************************************************************)
(* Properties of the store, checked under StoreSpec.                       *)
(***************************************************************************)
\* C12: resolveProperty returns the stored value unchanged when the field key
\* is present in the parent with a value other than undefined, and null when
\* the field key is absent from the parent; in neither case does it read the
\* links map.
C12_SlotStates ==
  \A parent \in ParentArgs(store), field \in FieldNames, args \in ArgsArgs :
    LET fieldKey == keyOfField(field, args)
        r == resolveProperty(store, parent, field, args)
    IN  /\ (fieldKey \in DOMAIN parent /\ parent[fieldKey] # Undefined) =>
             /\ r.result.tag = "scalar"
             /\ r.result.scalar = parent[fieldKey]
             /\ r.linksRead = {}
        /\ fieldKey \notin DOMAIN parent =>
             /\ r.result = NullResult
             /\ r.linksRead = {}

\* One stored entity holds a scalar in f, another has no slot for f, and a link
\* is stored under each of their link keys.
C12_Witness ==
  /\ DOMAIN store.records = EntityKeys
  /\ MapGet(store.records["Todo:1"].fields, "f") = "a"
  /\ store.records["User:1"].fields = writtenFields("User:1", "absent")
  /\ DOMAIN store.links = LinkKeys
  /\ store.links[joinKeys("User:1", "f")] = KeyLink("Todo:1")

\* The link slot of a normalizable parent whose stored link is an array.
ArraySlot(parent, field, args) ==
  /\ isLinkSlot(parent, keyOfField(field, args))
  /\ keyOfEntity(parent) # JsNull
  /\ readLink(store, joinKeys(keyOfEntity(parent), keyOfField(field, args))).tag = "array"

\* C13: array links keep their slots.  For a link slot of a normalizable parent
\* whose stored link is an array, resolveProperty returns an array of the same
\* length whose position i is the entity stored under link[i], and null when
\* link[i] is null or names a key with no stored entity.
C13_ArraySlots ==
  \A parent \in ParentArgs(store), field \in FieldNames, args \in ArgsArgs :
    ArraySlot(parent, field, args) =>
      LET link == readLink(store, joinKeys(keyOfEntity(parent), keyOfField(field, args)))
          r == resolveProperty(store, parent, field, args).result
      IN  /\ r.tag = "array"
          /\ Len(r.items) = Len(link.items)
          /\ \A i \in 1..Len(link.items) :
               r.items[i] = IF link.items[i] \in DOMAIN store.records
                            THEN store.records[link.items[i]]
                            ELSE NullEntity

\* User:1 has a link slot f whose link is [Todo:1, null], Todo:1 is stored.
C13_Witness ==
  /\ DOMAIN store.records = EntityKeys
  /\ ArraySlot(store.records["User:1"].fields, "f", NoArgs)
  /\ store.links[joinKeys("User:1", "f")] = ArrayLink(<<"Todo:1", JsNull>>)

\* C14: remove does not cascade.  remove(key) deletes only the record of key
\* and leaves the links and every other record unchanged; every link that
\* names key stays stored as it was, and resolveProperty through such a link
\* returns null for that entity (null in that slot of an array link).
C14_RemoveNoCascade ==
  \A key \in EntityKeys :
    LET s2 == remove(store, key)
    IN  /\ s2.links = store.links
        /\ DOMAIN s2.records = DOMAIN store.records \ {key}
        /\ \A k \in DOMAIN s2.records : s2.records[k] = store.records[k]
        /\ \A lk \in LinkKeys : readLink(s2, lk) = readLink(store, lk)
        /\ \A parent \in ParentArgs(s2), field \in FieldNames, args \in ArgsArgs :
             (isLinkSlot(parent, keyOfField(field, args)) /\ keyOfEntity(parent) # JsNull) =>
               LET link == readLink(s2, joinKeys(keyOfEntity(parent), keyOfField(field, args)))
                   r == resolveProperty(s2, parent, field, args).result
               IN  /\ link = KeyLink(key) => r = NullResult
                   /\ link.tag = "array" =>
                        \A i \in 1..Len(link.items) :
                          link.items[i] = key => r.items[i] = NullEntity

\* Both entities are stored, User:1 has a link slot f, and its link names
\* Todo:1 in an array while the link of Todo:1 names Todo:1 itself.
C14_Witness ==
  /\ DOMAIN store.records = EntityKeys
  /\ isLinkSlot(store.records["User:1"].fields, "f")
  /\ isLinkSlot(store.records["Todo:1"].fields, "f")
  /\ readLink(store, joinKeys("User:1", "f")) = ArrayLink(<<"User:1", "Todo:1">>)
  /\ readLink(store, joinKeys("Todo:1", "f")) = KeyLink("Todo:1")

\* C15: findOrCreate(key) returns the stored entity, not replaced and not
\* emptied, when one exists for key, and otherwise inserts and returns a fresh
\* entity with no fields; find(key) afterwards returns the very entity that was
\* returned, a second findOrCreate(key) returns it again without changing the
\* store, and no record under another key is changed.
C15_FindOrCreate ==
  \A key \in EntityKeys :
    LET r == findOrCreate(store, key)
    IN  /\ key \in DOMAIN store.records =>
             r.entity = store.records[key] /\ r.store = store
        /\ key \notin DOMAIN store.records =>
             /\ r.entity.fields = EmptyFields
             /\ r.entity # NullEntity
             /\ \A k \in DOMAIN store.records : store.records[k].ref # r.entity.ref
        /\ find(r.store, key) = r.entity
        /\ findOrCreate(r.store, key) = [store |-> r.store, entity |-> r.entity]
        /\ \A k \in EntityKeys \ {key} : find(r.store, k) = find(store, k)
        /\ DOMAIN r.store.records = DOMAIN store.records \cup {key}

\* Todo:1 is stored with fields, it is not the first entity that was created,
\* and User:1 is not stored.
C15_Witness ==
  /\ DOMAIN store.records = {"Todo:1"}
  /\ MapGet(store.records["Todo:1"].fields, "f") = "a"
  /\ store.records["Todo:1"].ref = 2

\* C16: a stored null link is distinct from a link that was never set.
\* readLink(key) returns undefined exactly when no setLink(key, ...) happened
\* since the store was created or since the last removeLink(key); after
\* setLink(key, null) it returns null, and after setLink(key, l) it returns l
\* until the next setLink or removeLink of the key, whatever happens to other
\* keys in between.
C16_LinkHistory ==
  \A key \in LinkKeys :
    /\ readLink(store, key) = linkHist[key]
    /\ linkHist[key] = NullLink => readLink(store, key) # UndefinedLink
    /\ readLink(store, key) = UndefinedLink <=> linkHist[key] = UndefinedLink

\* One key was last set to null, the other has no link, and both entities
\* were created and one of them removed since.
C16_Witness ==
  /\ linkHist[joinKeys("Todo:1", "f")] = NullLink
  /\ linkHist[joinKeys("User:1", "f")] = UndefinedLink
  /\ store.created = 2
  /\ DOMAIN store.records = {"User:1"}

\* C20: single-link resolution.  When the field key is present in the parent
\* with undefined, the result is null if the parent has no entity key (and no
\* link is read), null if the link at joinKeys(entityKey, fieldKey) is null or
\* was never set, and otherwise exactly find(link), which is null when the
\* linked key has no stored entity.
C20_SingleLink ==
  \A parent \in ParentArgs(store), field \in FieldNames, args \in ArgsArgs :
    isLinkSlot(parent, keyOfField(field, args)) =>
      LET r == resolveProperty(store, parent, field, args)
          entityKey == keyOfEntity(parent)
          link == readLink(store, joinKeys(entityKey, keyOfField(field, args)))
      IN  /\ entityKey = JsNull => r.result = NullResult /\ r.linksRead = {}
          /\ (entityKey # JsNull /\ link \in {NullLink, UndefinedLink}) =>
               r.result = NullResult
          /\ (entityKey # JsNull /\ link.tag = "key") =>
               /\ r.result = EntityResult(find(store, link.key))
               /\ link.key \notin DOMAIN store.records => r.result = NullResult
               /\ link.key \in DOMAIN store.records =>
                    r.result.tag = "entity" /\ r.result.entity = store.records[link.key]

\* Todo:1 has a link slot f whose link names User:1, which is not stored, and
\* Todo:1 was created after it.
C20_Witness ==
  /\ DOMAIN store.records = {"Todo:1"}
  /\ isLinkSlot(store.records["Todo:1"].fields, "f")
  /\ readLink(store, joinKeys("Todo:1", "f")) = KeyLink("User:1")
  /\ store.created = 2

\* ---------------------------------------------------------------------------
\* Claim about the document-augmentation exchange
\* ---------------------------------------------------------------------------

\* The query of key k was sent before position i of the stream and not torn
\* down between then and i.
LiveAt(i, k) ==
  \E j \in 1..(i - 1) :
    /\ stream[j] = Operation(k, "query")
    /\ \A l \in (j + 1)..(i - 1) : stream[l] # Operation(k, "teardown")

LiveFields(i, type) ==
  UNION {UNION {selectionsOf(k)[t] :
                  t \in possibleTypesOf(type) \cap DOMAIN selectionsOf(k)} :
           k \in {q \in QueryKeys : LiveAt(i, q)}}

IsPopulateMutation(op) ==
  op.operationName = "mutation" /\ mutationOf(op.key).populate

\* C18: populateExchange forgets torn-down queries: a mutation with @populate
\* is forwarded requesting its own fields, __typename and the fields of the
\* matching selections of exactly those queries that were sent and not torn
\* down since; after query, teardown of its key, mutation that is only
\* __typename besides the mutation's own fields.
C18_ForgetsTornDown ==
  \A i \in 1..Len(stream) :
    IsPopulateMutation(stream[i]) =>
      LET m == mutationOf(stream[i].key) IN
        /\ forwarded[i].fields =
             m.own \cup {TypenameField} \cup LiveFields(i, m.type)
        /\ (\A k \in QueryKeys : ~LiveAt(i, k)) =>
             forwarded[i].fields = m.own \cup {TypenameField}

C18_Witness ==
  /\ stream = <<Operation(1234, "query"), Operation(1234, "teardown"),
                Operation(5678, "mutation")>>
  /\ forwarded[3].fields = {"addTodo", "todo", TypenameField}

\* ---------------------------------------------------------------------------
\* Claim about the reads of the container and of the store
\* ---------------------------------------------------------------------------

\* C21: reads are pure.  get leaves the container, and find, readLink,
\* resolveEntity and resolveProperty leave the store (records and links) as
\* they were, for every input, also for keys that are not stored; find of a
\* key without a record answers null and creates no record.
C21_ReadsPure ==
  /\ \A k \in Keys : mapAfterGet(map, k) = map
  /\ \A key \in EntityKeys :
       /\ storeAfterFind(store, key) = store
       /\ key \notin DOMAIN store.records =>
            /\ find(store, key) = NullEntity
            /\ key \notin DOMAIN storeAfterFind(store, key).records
  /\ \A key \in LinkKeys : storeAfterReadLink(store, key) = store
  /\ \A entity \in ParentArgs(store) :
       storeAfterResolveEntity(store, entity) = store
  /\ \A parent \in ParentArgs(store), field \in FieldNames, args \in ArgsArgs :
       storeAfterResolveProperty(store, parent, field, args) = store

\* Todo:1 is stored with a link slot f whose link names User:1, which has no
\* record: resolveProperty of f calls find with a key that is not stored.
C21_Witness ==
  /\ DOMAIN store.records = {"Todo:1"}
  /\ isLinkSlot(store.records["Todo:1"].fields, "f")
  /\ readLink(store, joinKeys("Todo:1", "f")) = KeyLink("User:1")
  /\ find(store, "User:1") = NullEntity

====
